---------------------------- MODULE Spec2Model ----------------------------
(***************************************************************************)
(* A model of gulp-begin (src/gulp-begin.js): the configuration resolver,  *)
(* the path resolver, the task registry with its exclusion filter, and the *)
(* development-loop supervisor installed by the server function.  The      *)
(* second module of the repository that exports function(gulp, options),   *)
(* src/unnamed/part_000, shares the resolvers and the supervisor and       *)
(* registers its tasks directly, without the exclusion filter.             *)
(***************************************************************************)
EXTENDS Integers, Sequences, FiniteSets, TLC

VARIABLES
    module,         \* the module whose exported function the host calls
    userOptions,    \* the options value the host passes to begin(gulp, options)
    hostObject,     \* the host's options object as it is now
    options,        \* the resolved options (result of _.defaultsDeep)
    files,          \* the file sets derived from the resolved options
    excludedTasks,  \* the exclusion list computed by begin
    tasks,          \* the scheduler's registry: name -> [dep, fn]
    pc,             \* position of the gulp process
    exitCode,       \* exit code of the gulp process once pc = "exited"
    pending,        \* tasks of the current run that have not started
    active,         \* stream tasks started and not yet finished
    done,           \* tasks finished in the current run
    everDone,       \* tasks finished at any time in this process
    watches,        \* watch bindings installed with gulp.watch
    nodemon,        \* state of the subordinate server started by gp.nodemon
    child,          \* gulp child process spawned by this process
    timers,         \* pending setTimeout callbacks of the live-reload watch
    testRuns,       \* test pipelines (mocha, reports) started and still running
    now,            \* clock, in milliseconds
    lastCmd,        \* the latest command run with execSync and its exit status
    subStatus,      \* exit status of the subordinate server once it has quit
    closeStatus,    \* exit status of the latest gulp child that closed
    last,           \* what the latest invocation or event handler did
    hist            \* counters over the live-reload events of this process

vars == <<module, userOptions, hostObject, options, files, excludedTasks, tasks, pc,
          exitCode, pending, active, done, everDone, watches, nodemon, child,
          timers, testRuns, now, lastCmd, subStatus, closeStatus, last, hist>>

-----------------------------------------------------------------------------
(* JavaScript values: every value is a record [t, v], t the type tag.      *)

Undef == [t |-> "undef", v |-> <<>>]

Null == [t |-> "null", v |-> <<>>]

Str(s) == [t |-> "str", v |-> s]

Bool(b) == [t |-> "bool", v |-> b]

Arr(s) == [t |-> "arr", v |-> s]

Obj(f) == [t |-> "obj", v |-> f]

EmptyObj == [t |-> "obj", v |-> <<>>]

\* A mutation of Truthy: an empty array counts as falsy.
TruthyEmptyArrayFalsy(x) ==
    /\ x.t \notin {"undef", "null"}
    /\ ~(x.t = "str" /\ x.v = "")
    /\ ~(x.t = "bool" /\ x.v = FALSE)
    /\ ~(x.t = "arr" /\ x.v = <<>>)

\* JavaScript truthiness, as used by the conditions of begin.
Truthy(x) ==
    /\ x.t \notin {"undef", "null"}
    /\ ~(x.t = "str" /\ x.v = "")
    /\ ~(x.t = "bool" /\ x.v = FALSE)

IsObject(x) == x.t \in {"obj", "arr"}

IsArr(x) == x.t = "arr"

IsStr(x) == x.t = "str"

\* The keys of an object, the indices of an array (counted from 1 here).
Keys(x) == IF IsObject(x) THEN DOMAIN x.v ELSE {}

\* Property read o[k]; undefined when o has no such key or is a primitive.
Get(o, k) == IF k \in Keys(o) THEN o.v[k] ELSE Undef

\* _.get(object, path, default) for the path string "k1.k2".  When the
\* object has a key that is the whole path string, the path is that one key
\* (isKey); otherwise it is the two segments, a named key being undefined
\* on an array and on a primitive.  An undefined result gives the default.
Get2(o, k1, k2, dflt) ==
    LET Named(x, k) == IF x.t = "obj" /\ k \in DOMAIN x.v THEN x.v[k] ELSE Undef
        whole == k1 \o "." \o k2
        x == IF o.t = "obj" /\ whole \in DOMAIN o.v THEN o.v[whole]
             ELSE Named(Named(o, k1), k2)
    IN IF x.t = "undef" THEN dflt ELSE x

\* path.split("/"): the parts of a path between its separators.
\* SplitFrom(p, seps, start): the parts of p from position start on, seps
\* being the positions of the separators of p.
RECURSIVE SplitFrom(_, _, _)
SplitFrom(p, seps, start) ==
    LET after == {i \in seps : i >= start} IN
    IF after = {} THEN <<SubSeq(p, start, Len(p))>>
    ELSE LET i == CHOOSE i \in after : \A j \in after : i <= j IN
         <<SubSeq(p, start, i - 1)>> \o SplitFrom(p, seps, i + 1)

SplitPath(p) == SplitFrom(p, {i \in 1..Len(p) : SubSeq(p, i, i) = "/"}, 1)

\* The parts of a normalised path: empty parts and "." are dropped, ".."
\* removes the part before it; with nothing to remove it is kept in a
\* relative path and dropped in an absolute one.
RECURSIVE NormalizeParts(_, _, _)
NormalizeParts(parts, res, allowAboveRoot) ==
    IF parts = <<>> THEN res
    ELSE LET part == Head(parts) IN
         IF part = "" \/ part = "."
         THEN NormalizeParts(Tail(parts), res, allowAboveRoot)
         ELSE IF part = ".."
         THEN IF res # <<>> /\ res[Len(res)] # ".."
              THEN NormalizeParts(Tail(parts), SubSeq(res, 1, Len(res) - 1),
                                  allowAboveRoot)
              ELSE IF allowAboveRoot
              THEN NormalizeParts(Tail(parts), Append(res, ".."), allowAboveRoot)
              ELSE NormalizeParts(Tail(parts), res, allowAboveRoot)
         ELSE NormalizeParts(Tail(parts), Append(res, part), allowAboveRoot)

\* parts.join("/")
RECURSIVE JoinParts(_)
JoinParts(parts) ==
    IF parts = <<>> THEN ""
    ELSE IF Len(parts) = 1 THEN Head(parts)
    ELSE Head(parts) \o "/" \o JoinParts(Tail(parts))

\* path.normalize of a path that is not empty: the leading separator of an
\* absolute path and a trailing separator are kept; a relative path with no
\* part left is ".".
Normalize(p) ==
    LET isAbsolute == SubSeq(p, 1, 1) = "/"
        trailing == SubSeq(p, Len(p), Len(p)) = "/"
        body == JoinParts(NormalizeParts(SplitPath(p), <<>>, ~isAbsolute))
        named == IF body = "" /\ ~isAbsolute THEN "." ELSE body
        closed == IF named # "" /\ trailing THEN named \o "/" ELSE named
    IN IF isAbsolute THEN "/" \o closed ELSE closed

\* path.join on strings: the arguments that are not empty joined by "/",
\* then normalised; "." when all are empty.
PathJoin(segs) ==
    LET joined == JoinParts(SelectSeq(segs, LAMBDA seg : seg # ""))
    IN IF joined = "" THEN "." ELSE Normalize(joined)

-----------------------------------------------------------------------------
(* Configuration resolver: _.defaultsDeep(options, defaults).              *)

\* The value baseMergeDeep starts from when the destination has no value:
\* an empty array for an array source, an empty object for an object source.
EmptyLike(s) == [t |-> s.t, v |-> <<>>]

RECURSIVE BaseMerge(_, _)

\* A mutation of MergeValue: an array source is appended to an array
\* destination.
MergeValueConcat(o, s) ==
    IF IsArr(s) /\ IsArr(o) THEN Arr(o.v \o s.v)
    ELSE IF IsObject(s)
    THEN IF IsObject(o) THEN BaseMerge(o, s)
         ELSE IF o.t = "undef" THEN BaseMerge(EmptyLike(s), s)
         ELSE o
    ELSE IF o.t = "undef" THEN s ELSE o

\* The value one key gets: lodash's customDefaultsMerge inside baseMerge.
\* Object and array sources are merged recursively into an object or array
\* destination (arrays index by index); an undefined destination takes the
\* source; any other destination value (null included) is kept.
MergeValue(o, s) ==
    IF IsObject(s)
    THEN IF IsObject(o) THEN BaseMerge(o, s)
         ELSE IF o.t = "undef" THEN BaseMerge(EmptyLike(s), s)
         ELSE o
    ELSE IF o.t = "undef" THEN s ELSE o

\* baseMerge(object, source): every key of source is merged into object.
BaseMerge(object, source) ==
    [t |-> object.t,
     v |-> [k \in Keys(object) \cup Keys(source) |->
              IF k \in Keys(source)
              THEN MergeValue(Get(object, k), source.v[k])
              ELSE object.v[k]]]

\* The decimal strings of the first array indices: the property keys of the
\* elements of an array and of the characters of a string.
IndexStrings == <<"0", "1", "2", "3", "4", "5", "6", "7", "8", "9">>

\* The own enumerable properties of a String wrapper: one key per
\* character, "0" for the first.
StringProps(s) ==
    [k \in {IndexStrings[i] : i \in 1..Len(s)} |->
        LET i == CHOOSE i \in 1..Len(s) : IndexStrings[i] = k IN
        Str(SubSeq(s, i, i))]

\* Object(options): what defaultsDeep merges into.  An object or an array is
\* itself; a string is wrapped in a String object that holds its characters
\* under their index keys; undefined, null, a boolean and the empty string
\* give an object without own keys.
ToObject(x) ==
    IF IsObject(x) THEN x
    ELSE IF IsStr(x) THEN Obj(StringProps(x.v))
    ELSE EmptyObj

\* An array as the destination of the named keys of an object source: the
\* array keeps its elements and gets the merged keys next to them.  It is
\* written as the object of its properties, the elements under their index
\* keys.
Keyed(x) ==
    IF IsArr(x)
    THEN Obj([k \in {IndexStrings[i] : i \in DOMAIN x.v} |->
                 x.v[CHOOSE i \in DOMAIN x.v : IndexStrings[i] = k]])
    ELSE x

DefaultsDeep(object, source) == BaseMerge(Keyed(ToObject(object)), source)

\* process.cwd() and process.env.PORT of the modelled run.
ProcessCwd == Str("/proj")

EnvPort == Str("8081")

\* The first element of the default server.watch: it is computed from the
\* caller's options, before the merge.
DefaultServerWatchHead(opts) ==
    LET cwd == Get2(opts, "server", "cwd", Str("src/server")) IN
    IF IsStr(cwd) THEN Str(PathJoin(<<cwd.v, "**/*.js">>)) ELSE Undef

\* path.join throws on a segment that is not a string.
DefaultsThrow(opts) == ~IsStr(Get2(opts, "server", "cwd", Str("src/server")))

\* The defaults object literal handed to _.defaultsDeep.
Defaults(opts) ==
    Obj([root |-> ProcessCwd,
         port |-> EnvPort,
         server |-> Obj([cwd |-> Str("src/server"),
                         main |-> Str("index.js"),
                         watch |-> Arr(<<DefaultServerWatchHead(opts),
                                         Str("*.js")>>)]),
         client |-> Obj([lib |-> Str("bower_components"),
                         cwd |-> Str("src/client"),
                         dest |-> Str("public"),
                         html |-> Obj([src |-> Arr(<<Str("*.html")>>)]),
                         scripts |-> Obj([cwd |-> Str("scripts"),
                                          dest |-> Str("app.min.js"),
                                          lib |-> Arr(<<>>),
                                          src |-> Arr(<<Str("*.js"),
                                                        Str("*/**/*.js")>>)]),
                         styles |-> Obj([cwd |-> Str("styles"),
                                         dest |-> Str("app.min.css"),
                                         include |-> Obj([lib |-> Arr(<<>>),
                                                          src |-> Arr(<<Str("styles")>>)]),
                                         src |-> Arr(<<Str("styles.scss")>>)]),
                         templates |-> Obj([cwd |-> Str("views"),
                                            src |-> Arr(<<Str("**/*.html")>>)]),
                         images |-> Obj([cwd |-> Str("images"),
                                         src |-> Arr(<<Str("**/*.png")>>)])]),
         test |-> Obj([main |-> Str("spec.js"),
                       watch |-> Arr(<<Str("test/**/*.js")>>)])])

\* options = _.defaultsDeep(options, {...})
Resolve(opts) == DefaultsDeep(opts, Defaults(opts))

-----------------------------------------------------------------------------
(* Path resolver: buildFiles and the files object.                         *)

\* The strings of an array of strings.
Strings(a) == [i \in DOMAIN a.v |-> a.v[i].v]

\* Reading a property of undefined or null throws.
CanRead(x) == x.t \notin {"undef", "null"}

\* A mutation of PrefixSegs: the directory of the scope is pushed before
\* the client directory.
PrefixSegsScopeFirst(o, scope, type) ==
    IF type = "lib" THEN <<Get(Get(o, "client"), "lib")>>
    ELSE (IF Truthy(Get(scope, "cwd")) THEN <<Get(scope, "cwd")>> ELSE <<>>)
         \o (IF Truthy(Get(Get(o, "client"), "cwd"))
             THEN <<Get(Get(o, "client"), "cwd")>> ELSE <<>>)

\* The prefix segments buildFiles pushes for a scope and a type.
PrefixSegs(o, scope, type) ==
    IF type = "lib" THEN <<Get(Get(o, "client"), "lib")>>
    ELSE (IF Truthy(Get(Get(o, "client"), "cwd"))
          THEN <<Get(Get(o, "client"), "cwd")>> ELSE <<>>)
         \o (IF Truthy(Get(scope, "cwd")) THEN <<Get(scope, "cwd")>> ELSE <<>>)

\* buildFiles throws when scope[type] has no map, or when path.join gets a
\* segment or a file that is not a string.
BuildFilesThrows(o, scope, type) ==
    \/ ~CanRead(scope)
    \/ ~IsArr(Get(scope, type))
    \/ /\ Get(scope, type).v # <<>>
       /\ \/ \E i \in DOMAIN PrefixSegs(o, scope, type) :
                ~IsStr(PrefixSegs(o, scope, type)[i])
          \/ \E i \in DOMAIN Get(scope, type).v : ~IsStr(Get(scope, type).v[i])

\* buildFiles(scope, type): each file joined to the prefix, in order.
BuildFiles(o, scope, type) ==
    LET segs == PrefixSegs(o, scope, type)
        pre == [i \in DOMAIN segs |-> segs[i].v]
        list == Get(scope, type).v
    IN [i \in DOMAIN list |-> PathJoin(pre \o <<list[i].v>>)]

\* list.map(file => path.join(base, file)) of the styles include sets.
JoinEach(base, list) == [i \in DOMAIN list.v |-> PathJoin(<<base.v, list.v[i].v>>)]

JoinEachThrows(base, list) ==
    \/ ~IsArr(list)
    \/ /\ list.v # <<>>
       /\ (~IsStr(base) \/ \E i \in DOMAIN list.v : ~IsStr(list.v[i]))

\* Building the files object throws.
FilesThrow(o) ==
    LET c == Get(o, "client") IN
    \/ ~CanRead(c)
    \/ \E k \in {"html", "templates", "scripts", "styles", "images"} :
          BuildFilesThrows(o, Get(c, k), "src")
    \/ BuildFilesThrows(o, Get(c, "scripts"), "lib")
    \/ ~CanRead(Get(Get(c, "styles"), "include"))
    \/ JoinEachThrows(Get(c, "cwd"), Get(Get(Get(c, "styles"), "include"), "src"))
    \/ JoinEachThrows(Get(c, "lib"), Get(Get(Get(c, "styles"), "include"), "lib"))

\* The files object.
Files(o) ==
    LET c == Get(o, "client") IN
    [html |-> BuildFiles(o, Get(c, "html"), "src"),
     templates |-> BuildFiles(o, Get(c, "templates"), "src"),
     scripts |-> BuildFiles(o, Get(c, "scripts"), "src"),
     stylesMain |-> BuildFiles(o, Get(c, "styles"), "src"),
     stylesInclude |-> JoinEach(Get(c, "cwd"), Get(Get(Get(c, "styles"), "include"), "src")),
     images |-> BuildFiles(o, Get(c, "images"), "src"),
     libScripts |-> BuildFiles(o, Get(c, "scripts"), "lib"),
     libStylesInclude |-> JoinEach(Get(c, "lib"), Get(Get(Get(c, "styles"), "include"), "lib"))]

NoFiles == [html |-> <<>>, templates |-> <<>>, scripts |-> <<>>,
            stylesMain |-> <<>>, stylesInclude |-> <<>>, images |-> <<>>,
            libScripts |-> <<>>, libStylesInclude |-> <<>>]

-----------------------------------------------------------------------------
(* Task registry and exclusion filter.                                     *)

\* The base names of the default tasks, in the key order of defaultTasks.
BaseNames ==
    <<"html", "jshint", "scripts", "styles", "images", "build", "server",
      "demon", "dev", "test", "autotest", "docs", "changelog">>

Range(s) == {s[i] : i \in DOMAIN s}

\* A mutation of Name: the prefix is not applied.
NameUnqualified(o, task) == task

\* var name = task => options.prefix ? `${options.prefix}_${task}` : task
Name(o, task) ==
    IF Truthy(Get(o, "prefix")) THEN Get(o, "prefix").v \o "_" \o task ELSE task

\* The two shapes of an element of a task's argument array.
Deps(names) == [k |-> "deps", names |-> names, body |-> "none"]

Fn(body) == [k |-> "fn", names |-> <<>>, body |-> body]

\* The value defaultTasks holds for a base name: the arguments that follow
\* the task name.
DefaultTaskArgs(o, base) ==
    CASE base = "scripts" -> <<Deps(<<Name(o, "jshint")>>), Fn("scripts")>>
      [] base = "build" -> <<Deps(<<Name(o, "html"), Name(o, "styles"),
                                    Name(o, "scripts"), Name(o, "images")>>)>>
      [] base = "server" -> <<Deps(<<Name(o, "build")>>), Fn("server")>>
      [] base = "demon" -> <<Fn("server")>>
      [] base = "test" -> <<Deps(<<Name(o, "jshint")>>), Fn("test")>>
      [] OTHER -> <<Fn(base)>>

\* _.keys(defaultTasks)
AllDefaultTaskNames(o) == [i \in DOMAIN BaseNames |-> Name(o, BaseNames[i])]

\* _.difference(array, values): the elements of array not in values, in order.
Difference(array, values) == SelectSeq(array, LAMBDA x : x \notin Range(values))

\* The exclusion list: options.exclude when truthy, else the default names
\* without the qualified names of options.only when that is truthy, else [].
ExcludedTasks(o) ==
    IF Truthy(Get(o, "exclude")) THEN Strings(Get(o, "exclude"))
    ELSE IF Truthy(Get(o, "only"))
         THEN LET only == Strings(Get(o, "only")) IN
              Difference(AllDefaultTaskNames(o),
                         [i \in DOMAIN only |-> Name(o, only[i])])
         ELSE <<>>

\* isExcluded of task(taskName, callback); taskName is a key of defaultTasks,
\* a name that already carries the prefix.
IsExcluded(o, excluded, taskName) ==
    \/ taskName \in Range(excluded)
    \/ Name(o, taskName) \in Range(excluded)

\* gulp.task(name, callback) with one argument after the name: a function is
\* the body of a task without dependencies, an array is the dependency list
\* of a task whose body does nothing.
GulpTask(callback) ==
    IF callback.k = "fn" THEN [dep |-> <<>>, fn |-> callback.body]
    ELSE [dep |-> callback.names, fn |-> "noop"]

\* A mutation of Stub: the excluded task keeps a body that does nothing and
\* does not warn.
StubSilent == [dep |-> <<>>, fn |-> "noop"]

\* The stub of an excluded task: gulp.task(taskName, () => console.warn(...)).
Stub == [dep |-> <<>>, fn |-> "warn"]

\* task.apply(null, [defaultTaskName].concat(defaultTaskArgs)): task has the
\* two parameters (taskName, callback), so callback is the first element of
\* defaultTaskArgs and any further element is dropped.
Callback(args) == args[1]

\* The names task() hands to gulp.task.
DefinedNames(o, excluded) ==
    {n \in Range(AllDefaultTaskNames(o)) :
        IsExcluded(o, excluded, n) => Truthy(Get(o, "warnExclusions"))}

\* The base name of a key of defaultTasks.
BaseOf(o, n) == CHOOSE b \in Range(BaseNames) : Name(o, b) = n

\* The registry after the _.forEach over defaultTasks.
Register(o, excluded, before) ==
    [n \in DOMAIN before \cup DefinedNames(o, excluded) |->
        IF n \in DefinedNames(o, excluded)
        THEN IF IsExcluded(o, excluded, n) THEN Stub
             ELSE GulpTask(Callback(DefaultTaskArgs(o, BaseOf(o, n))))
        ELSE before[n]]

\* The modules that export function(gulp, options): gulp-begin.js, which the
\* repository's gulpfile requires, and part_000.
Modules == {"gulp-begin.js", "part_000"}

\* gulp.task(name, ...args) with every argument that follows the name: the
\* array is the dependency list, the function is the body; a task given no
\* function has a body that does nothing.
GulpTaskArgs(args) ==
    LET deps == SelectSeq(args, LAMBDA a : a.k = "deps")
        fns == SelectSeq(args, LAMBDA a : a.k = "fn")
    IN  [dep |-> IF deps = <<>> THEN <<>> ELSE deps[1].names,
         fn |-> IF fns = <<>> THEN "noop" ELSE fns[1].body]

\* The name a gulp.task call of part_000 registers a task under: name(base),
\* except for dev, which is registered as 'dev' whatever the prefix.
DirectName(o, base) == IF base = "dev" THEN "dev" ELSE Name(o, base)

\* The arguments that follow the name in the gulp.task calls of part_000:
\* the dependency lists and the bodies are those of the entries of
\* defaultTasks (the html and images bodies begin with a delete, see
\* StartEffects).
DirectTaskArgs(o, base) == DefaultTaskArgs(o, base)

\* The registry after the gulp.task calls of part_000: every task is
\* registered, with its dependencies and its body.
RegisterDirect(o, before) ==
    LET names == {DirectName(o, b) : b \in Range(BaseNames)} IN
    [n \in DOMAIN before \cup names |->
        IF n \in names
        THEN GulpTaskArgs(DirectTaskArgs(o,
                 CHOOSE b \in Range(BaseNames) : DirectName(o, b) = n))
        ELSE before[n]]

\* The registry of the host gulpfile before it calls begin:
\* gulp.task('default', ['test']).
HostTasks == [n \in {"default"} |-> [dep |-> <<"test">>, fn |-> "noop"]]

-----------------------------------------------------------------------------
(* The development-loop supervisor: the server function.                   *)

\* Bounds of the model.
MaxEvents == 2

MaxTime == 1500

TickMs == 500

\* The delay of the live-reload setTimeout.
ReloadDelay == 1000

Flatten(lists) ==
    IF lists = <<>> THEN <<>>
    ELSE LET F[i \in 0..Len(lists)] ==
                 IF i = 0 THEN <<>> ELSE F[i - 1] \o lists[i]
         IN F[Len(lists)]

\* array[key] for a string key: the element when key is the decimal string
\* of one of its indices, undefined for any other key (a task name is one).
ArrayProp(array, key) ==
    IF \E i \in DOMAIN array : i \in DOMAIN IndexStrings /\ IndexStrings[i] = key
    THEN Str(array[CHOOSE i \in DOMAIN array :
                       i \in DOMAIN IndexStrings /\ IndexStrings[i] = key])
    ELSE Undef

\* The action of a watch binding: a list of task names to start, or one of
\* the callbacks of the server function.
StartTasks(names) == [k |-> "tasks", names |-> names, id |-> "none", file |-> ""]

Callback2(id, file) == [k |-> "cb", names |-> <<>>, id |-> id, file |-> file]

NoAction == [k |-> "none", names |-> <<>>, id |-> "none", file |-> ""]

\* gulp.watch(glob, action): one binding; no binding for an undefined glob.
GulpWatch(glob, action) ==
    IF glob.t = "undef" THEN {} ELSE {[glob |-> glob.v, act |-> action]}

\* The watch bindings the server function installs.
ServerWatches(o, fs) ==
    GulpWatch(Arr(fs.html), StartTasks(<<Name(o, "html")>>))
    \cup GulpWatch(Arr(Flatten(<<fs.scripts, fs.templates, fs.libScripts>>)),
                  StartTasks(<<Name(o, "scripts")>>))
    \cup GulpWatch(ArrayProp(Flatten(<<fs.stylesMain, fs.stylesInclude,
                                       fs.libStylesInclude>>),
                             Name(o, "styles")),
                  NoAction)
    \cup GulpWatch(Arr(fs.images), StartTasks(<<Name(o, "images")>>))
    \cup GulpWatch(Arr(<<"gulpfile.js">>), Callback2("gulpfile", "gulpfile.js"))
    \cup GulpWatch(Arr(<<"package.json">>), Callback2("package", "package.json"))
    \cup GulpWatch(Arr(<<"bower.json">>), Callback2("bower", "bower.json"))
    \cup GulpWatch(Arr(<<PathJoin(<<Get(Get(o, "client"), "dest").v, "**/*">>)>>),
                  Callback2("livereload", ""))

\* The watch binding of the autotest task.
AutotestWatches(o) ==
    GulpWatch(Arr(Flatten(<<Strings(Get(Get(o, "server"), "watch")),
                            Strings(Get(Get(o, "test"), "watch"))>>)),
              StartTasks(<<"test">>))

\* The files whose changes the model delivers (paths relative to the
\* project root), each with the glob patterns of the default layout that it
\* matches.
MatchTable ==
    {<<"src/client/*.html", "src/client/index.html">>,
     <<"src/client/scripts/*.js", "src/client/scripts/app.js">>,
     <<"src/client/views/**/*.html", "src/client/views/home.html">>,
     <<"src/client/styles/styles.scss", "src/client/styles/styles.scss">>,
     <<"src/client/styles", "src/client/styles">>,
     <<"src/client/images/**/*.png", "src/client/images/logo.png">>,
     <<"gulpfile.js", "gulpfile.js">>,
     <<"*.js", "gulpfile.js">>,
     <<"package.json", "package.json">>,
     <<"bower.json", "bower.json">>,
     <<"public/**/*", "public/index.html">>,
     <<"src/server/**/*.js", "src/server/index.js">>,
     <<"test/**/*.js", "test/spec.js">>}

EventFiles == {m[2] : m \in MatchTable}

\* A file matches a glob list when it matches one of its patterns.
Matches(glob, f) == \E i \in DOMAIN glob : <<glob[i], f>> \in MatchTable

\* event.path: the absolute path of the changed file.
EventPath(f) == PathJoin(<<ProcessCwd.v, f>>)

\* path.indexOf(file) !== -1
Contains(path, file) ==
    \E i \in 1..(Len(path) - Len(file) + 1) :
        SubSeq(path, i, i + Len(file) - 1) = file

-----------------------------------------------------------------------------
(* The scheduler: gulp.start and the execution of task bodies.             *)

\* The names reachable from a set of names through declared dependencies.
RECURSIVE Reach(_, _)
Reach(tk, S) ==
    LET S2 == S \cup UNION {Range(tk[n].dep) : n \in S \cap DOMAIN tk} IN
    IF S2 = S THEN S ELSE Reach(tk, S2)

\* The bodies that return a stream: such a task finishes when its stream ends.
StreamBodies == {"html", "jshint", "scripts", "styles", "images", "test",
                 "docs", "changelog"}

\* The bodies whose pipeline ends in gulp.dest.
WritingBodies == {"html", "scripts", "styles", "images", "docs", "changelog"}

\* The exit statuses a command run with execSync or spawn can end with.
ExitStatuses == {0, 1, 2}

\* What keeps the node process alive: a watcher, the subordinate server, a
\* child process, a timer, a task still to run, or a running test pipeline.
KeepsAlive(w, nm, ch, tm, pend, act, runs) ==
    \/ runs > 0
    \/ w # {}
    \/ nm # "off"
    \/ ch # <<>>
    \/ tm # <<>>
    \/ pend # {}
    \/ act # {}

\* A command run with cp.execSync and the status it ended with.
Ran(cmd, status) == [cmd |-> cmd, status |-> status]

Did(op, task, eff) == [op |-> op, task |-> task, eff |-> eff]

NoHist == [changes |-> 0, reloads |-> 0, notified |-> 0, first |-> 0, latest |-> 0]

-----------------------------------------------------------------------------
(* Inputs: the options a host passes to begin.                             *)

Absent == [t |-> "absent", v |-> <<>>]

\* An object holding the keys of f whose value is not Absent.
MkObj(f) == Obj([k \in {k \in DOMAIN f : f[k] # Absent} |-> f[k]])

\* The same, but Absent when no key is left: the whole subtree is omitted.
MkSub(f) == IF \A k \in DOMAIN f : f[k] = Absent THEN Absent ELSE MkObj(f)

StrArr(s) == Arr([i \in DOMAIN s |-> Str(s[i])])

\* The options of the repository's own gulpfile.
GulpfileOptions ==
    Obj([test |-> Obj([main |-> Str("test/test.js")]),
         exclude |-> StrArr(<<"server">>),
         warnExclusions |-> Bool(TRUE)])

PrefixInputs == {Absent, Str("p")}

ExcludeInputs ==
    {Absent, StrArr(<<>>), StrArr(<<"server">>), StrArr(<<"jshint">>),
     StrArr(<<"p_html">>), StrArr(<<"build", "dev">>)}

OnlyInputs ==
    {Absent, StrArr(<<"build">>), StrArr(<<"html", "demon">>),
     StrArr(<<"jshint", "scripts">>)}

WarnInputs == {Absent, Bool(TRUE)}

\* Options that configure the registry: prefix, exclude, only, warnExclusions.
RegistryInputs ==
    {GulpfileOptions} \cup
    {MkObj([prefix |-> p, exclude |-> e, only |-> y, warnExclusions |-> w]) :
        p \in PrefixInputs, e \in ExcludeInputs, y \in OnlyInputs, w \in WarnInputs}

\* Options that configure the layout: every array-valued key and the
\* directories the default server.watch and the source paths derive from.
ConfigInputs ==
    {MkObj([server |-> MkSub([cwd |-> sc, watch |-> sw]),
            client |-> MkSub([cwd |-> cc,
                              scripts |-> MkSub([cwd |-> sd, src |-> ss,
                                                 lib |-> sl])]),
            test |-> MkSub([watch |-> tw])]) :
        sc \in {Absent, Str("srv")},
        sw \in {Absent, StrArr(<<"a.js">>), StrArr(<<"a.js", "b.js", "c.js">>)},
        cc \in {Absent, Str(""), Str("app"), Str("app/")},
        sd \in {Absent, Str(""), Str("js/")},
        ss \in {Absent, StrArr(<<>>), StrArr(<<"a.js">>)},
        sl \in {Absent, StrArr(<<"jq.js">>)},
        tw \in {Absent, StrArr(<<>>), StrArr(<<"t.js", "u.js">>)}}

\* Options a host can pass that are absent, not an object, or hold a leaf
\* that is null or of the wrong type.
MalformedInputs ==
    {Undef,
     Str("x"),
     MkObj([client |-> Null]),
     MkObj([client |-> MkObj([cwd |-> Null])]),
     MkObj([client |-> MkObj([lib |-> Null])]),
     MkObj([client |-> MkObj([lib |-> Null,
                              scripts |-> MkObj([lib |-> StrArr(<<"jq.js">>)])])]),
     MkObj([client |-> MkObj([scripts |-> MkObj([src |-> Str("a.js")])])]),
     MkObj([client |-> MkObj([images |-> MkObj([src |-> Null])])]),
     MkObj([server |-> MkObj([cwd |-> Null])])}

-----------------------------------------------------------------------------
(* The state machine.                                                      *)

InitOf(modules, inputs) ==
    /\ module \in modules
    /\ userOptions \in inputs
    /\ hostObject = userOptions
    /\ options = Undef
    /\ files = NoFiles
    /\ excludedTasks = <<>>
    /\ tasks = HostTasks
    /\ pc = "load"
    /\ exitCode = 0
    /\ pending = {}
    /\ active = {}
    /\ done = {}
    /\ everDone = {}
    /\ watches = {}
    /\ nodemon = "off"
    /\ child = <<>>
    /\ timers = <<>>
    /\ testRuns = 0
    /\ now = 0
    /\ lastCmd = Ran("", 0)
    /\ subStatus = 0
    /\ closeStatus = 0
    /\ last = Did("none", "", <<>>)
    /\ hist = NoHist

\* Options of the runs of the development loop.  warnExclusions is read for
\* an excluded task only, so it is varied where a task is excluded.
WatchInputs ==
    {GulpfileOptions} \cup
    {MkObj([prefix |-> p, exclude |-> e,
            warnExclusions |-> IF e = Absent THEN Absent ELSE w]) :
        p \in PrefixInputs,
        e \in {Absent, StrArr(<<"html">>), StrArr(<<"build">>)},
        w \in WarnInputs}

\* Options of the runs of the development loop of part_000, which reads
\* neither exclude nor warnExclusions.
DirectWatchInputs == {GulpfileOptions, MkObj([prefix |-> Str("p")])}

InitWith(inputs) == InitOf(Modules, inputs)

Init ==
    \/ InitOf({"gulp-begin.js"}, WatchInputs)
    \/ InitOf({"part_000"}, DirectWatchInputs)

InitRegistry == InitWith(RegistryInputs)

\* Options whose keys or directories are written in a way the resolvers
\* read specially: a key that is a whole path string, directories with "."
\* and ".." parts.
SpelledInputs ==
    {Obj([k \in {"server.cwd"} |-> Str("foo")]),
     Obj([k \in {"server.cwd", "server"} |->
             IF k = "server" THEN Obj([cwd |-> Str("bar")]) ELSE Str("foo")]),
     MkObj([server |-> MkObj([cwd |-> Str("./srv")]),
            client |-> MkObj([cwd |-> Str("./app"),
                              scripts |-> MkObj([cwd |-> Str("../js"),
                                                 src |-> StrArr(<<"./a.js">>)])])])}

InitResolve == InitWith(ConfigInputs \cup MalformedInputs \cup SpelledInputs)

\* The host's object after _.defaultsDeep(object, ...): the merge writes into
\* its first argument, so an object holds the merged keys afterwards; a
\* value that is not an object is wrapped and keeps its own content.
Merged(object, result) == IF IsObject(object) THEN result ELSE object

\* begin(gulp, options): resolve the options, derive the files, compute the
\* exclusion list and register the default tasks.  An exception ends the
\* gulp process.
Begin ==
    /\ module = "gulp-begin.js"
    /\ pc = "load"
    /\ IF DefaultsThrow(userOptions) \/ FilesThrow(Resolve(userOptions))
       THEN /\ pc' = "exited"
            /\ exitCode' = 1
            /\ last' = Did("begin", "", <<"throw">>)
            /\ UNCHANGED <<options, files, excludedTasks, tasks>>
       ELSE /\ options' = Resolve(userOptions)
            /\ files' = Files(options')
            /\ excludedTasks' = ExcludedTasks(options')
            /\ tasks' = Register(options', excludedTasks', tasks)
            /\ pc' = "ready"
            /\ last' = Did("begin", "", <<>>)
            /\ UNCHANGED exitCode
    /\ hostObject' = IF DefaultsThrow(userOptions) THEN hostObject
                     ELSE Merged(hostObject, Resolve(userOptions))
    /\ UNCHANGED <<testRuns, module, userOptions, closeStatus, lastCmd, subStatus, pending, active, done,
                   everDone, watches, nodemon, child, timers, now, hist>>

\* The function part_000 exports: it resolves the options and derives the
\* files as begin does, then registers every task with gulp.task; it reads
\* none of exclude, only and warnExclusions.
BeginPart000 ==
    /\ module = "part_000"
    /\ pc = "load"
    /\ IF DefaultsThrow(userOptions) \/ FilesThrow(Resolve(userOptions))
       THEN /\ pc' = "exited"
            /\ exitCode' = 1
            /\ last' = Did("begin", "", <<"throw">>)
            /\ UNCHANGED <<options, files, tasks>>
       ELSE /\ options' = Resolve(userOptions)
            /\ files' = Files(options')
            /\ tasks' = RegisterDirect(options', tasks)
            /\ pc' = "ready"
            /\ last' = Did("begin", "", <<>>)
            /\ UNCHANGED exitCode
    /\ hostObject' = IF DefaultsThrow(userOptions) THEN hostObject
                     ELSE Merged(hostObject, Resolve(userOptions))
    /\ UNCHANGED <<testRuns, module, userOptions, excludedTasks, closeStatus, lastCmd,
                   subStatus, pending, active, done, everDone, watches,
                   nodemon, child, timers, now, hist>>

\* gulp.start(names) fails when a name, or a dependency reachable from it,
\* is not in the registry.
StartFails(tk, names) == ~(Reach(tk, Range(names)) \subseteq DOMAIN tk)

\* `gulp <task>` on the command line: the scheduler starts the task with its
\* dependencies; a name that does not resolve ends the process with code 1.
Start(t) ==
    /\ pc = "ready"
    /\ IF StartFails(tasks, <<t>>)
       THEN /\ pc' = "exited"
            /\ exitCode' = 1
            /\ UNCHANGED pending
       ELSE /\ pc' = "running"
            /\ pending' = Reach(tasks, {t})
            /\ UNCHANGED exitCode
    /\ last' = Did("start", t, <<>>)
    /\ UNCHANGED <<testRuns, module, userOptions, closeStatus, hostObject, lastCmd, subStatus, options, files,
                   excludedTasks, tasks, active, done, everDone, watches,
                   nodemon, child, timers, now, hist>>

\* The process ends with code 0 once nothing keeps it alive.
Settle ==
    IF KeepsAlive(watches', nodemon', child', timers', pending', active', testRuns')
    THEN pc' = "running" /\ UNCHANGED exitCode
    ELSE pc' = "exited" /\ exitCode' = 0

\* The bodies of part_000 that begin with del.sync on their source globs.
DeletingBodies == {"html", "images"}

\* What the body of a stream task does before it returns its stream.  In
\* gulp-begin.js it builds the pipeline from gulp.src and nothing else: no
\* body deletes a file (the del module is not loaded).  In part_000 the html
\* and images bodies first delete the files their source globs match.
StartEffects(m, fn) ==
    IF m = "part_000" /\ fn \in DeletingBodies THEN <<"delete sources">>
    ELSE <<>>

\* A task that returns a stream starts; it finishes in FinishBody.
StartStream(t) ==
    /\ tasks[t].fn \in StreamBodies
    /\ active' = active \cup {t}
    /\ pending' = pending \ {t}
    /\ last' = Did("body", t, StartEffects(module, tasks[t].fn))
    /\ UNCHANGED <<done, everDone, watches, nodemon, child, pc, exitCode,
                   lastCmd>>

\* A task whose body does nothing (a task registered with dependencies only).
RunNoop(t) ==
    /\ tasks[t].fn = "noop"
    /\ pending' = pending \ {t}
    /\ done' = done \cup {t}
    /\ everDone' = everDone \cup {t}
    /\ last' = Did("body", t, <<>>)
    /\ UNCHANGED <<active, watches, nodemon, child, lastCmd>>
    /\ Settle

\* The stub of an excluded task: console.warn naming the task.
RunStub(t) ==
    /\ tasks[t].fn = "warn"
    /\ pending' = pending \ {t}
    /\ done' = done \cup {t}
    /\ everDone' = everDone \cup {t}
    /\ last' = Did("body", t, <<"warn " \o t>>)
    /\ UNCHANGED <<active, watches, nodemon, child, lastCmd>>
    /\ Settle

\* The server function: the watch bindings, the subordinate server under
\* nodemon, the live-reload listener.
RunServer(t) ==
    /\ tasks[t].fn = "server"
    /\ pending' = pending \ {t}
    /\ done' = done \cup {t}
    /\ everDone' = everDone \cup {t}
    /\ watches' = watches \cup ServerWatches(options, files)
    /\ nodemon' = "running"
    /\ last' = Did("body", t, <<"watch", "nodemon", "listen">>)
    /\ UNCHANGED <<active, child, pc, exitCode, lastCmd>>

\* The autotest body: one watch binding.
RunAutotest(t) ==
    /\ tasks[t].fn = "autotest"
    /\ pending' = pending \ {t}
    /\ done' = done \cup {t}
    /\ everDone' = everDone \cup {t}
    /\ watches' = watches \cup AutotestWatches(options)
    /\ last' = Did("body", t, <<"watch">>)
    /\ UNCHANGED <<active, nodemon, child, pc, exitCode, lastCmd>>

\* The dev body: a synchronous npm install, then a gulp child running demon.
\* execSync throws on a non-zero status; the task then fails and gulp exits
\* with code 1.
RunDev(t) ==
    /\ tasks[t].fn = "dev"
    /\ \E status \in ExitStatuses :
         /\ lastCmd' = Ran("npm install", status)
         /\ IF status = 0
            THEN /\ child' = Append(child, Name(options, "demon"))
                 /\ pending' = pending \ {t}
                 /\ done' = done \cup {t}
                 /\ everDone' = everDone \cup {t}
                 /\ last' = Did("body", t, <<"npm install",
                                            "spawn " \o Name(options, "demon")>>)
                 /\ UNCHANGED <<pc, exitCode>>
            ELSE /\ pc' = "exited"
                 /\ exitCode' = 1
                 /\ last' = Did("body", t, <<"npm install", "throw">>)
                 /\ UNCHANGED <<child, pending, done, everDone>>
    /\ UNCHANGED <<active, watches, nodemon>>

\* The scheduler runs a task of the current run whose dependencies are done.
StartBody(t) ==
    /\ pc = "running"
    /\ t \in pending
    /\ Range(tasks[t].dep) \subseteq done
    /\ UNCHANGED <<testRuns, module, userOptions, closeStatus, hostObject, subStatus, options, files,
                   excludedTasks, tasks, timers, now, hist>>
    /\ \/ StartStream(t)
       \/ RunNoop(t)
       \/ RunStub(t)
       \/ RunServer(t)
       \/ RunAutotest(t)
       \/ RunDev(t)

\* What has happened when the stream a body returned ends.  A writing body
\* has written its artifacts; a body of part_000 that has deleted its
\* sources has read no file and written none.  The test body returns the
\* instrumenting stream, whose finish handler starts a second pipeline
\* (mocha, then the coverage reports) that it does not return.
FinishEffects(m, fn) ==
    IF fn \in WritingBodies
    THEN IF m = "part_000" /\ fn \in DeletingBodies THEN <<>>
         ELSE <<"write " \o fn>>
    ELSE IF fn = "test" THEN <<"instrument", "start mocha">>
    ELSE <<>>

\* The stream of a task ends: its artifacts are written and the task is
\* done.  The finish handler of the test body has started the second
\* pipeline, which runs on after the task is done.
FinishBody(t) ==
    /\ pc = "running"
    /\ t \in active
    /\ active' = active \ {t}
    /\ done' = done \cup {t}
    /\ everDone' = everDone \cup {t}
    /\ testRuns' = IF tasks[t].fn = "test" THEN testRuns + 1 ELSE testRuns
    /\ last' = Did("finish", t, FinishEffects(module, tasks[t].fn))
    /\ UNCHANGED <<pending, watches, nodemon, child>>
    /\ UNCHANGED <<module, userOptions, closeStatus, hostObject, lastCmd, subStatus, options, files,
                   excludedTasks, tasks, timers, now, hist>>
    /\ Settle

\* A test pipeline started by the finish handler of the test body ends:
\* mocha has run the tests and the coverage reports are written.
TestPipelineEnd ==
    /\ pc = "running"
    /\ testRuns > 0
    /\ testRuns' = testRuns - 1
    /\ last' = Did("pipeline", "test", <<"run tests", "write reports">>)
    /\ UNCHANGED <<module, userOptions, closeStatus, hostObject, lastCmd, subStatus,
                   options, files, excludedTasks, tasks, pending, active, done,
                   everDone, watches, nodemon, child, timers, now, hist>>
    /\ Settle

\* A stream of a running test pipeline emits an error (a failing test in
\* mocha, a failure writing the reports).  No stream of that pipeline has an
\* error listener and the pipeline is not returned to the scheduler: node
\* throws the error and the process ends with code 1.
TestPipelineError ==
    /\ pc = "running"
    /\ testRuns > 0
    /\ pc' = "exited"
    /\ exitCode' = 1
    /\ last' = Did("pipeline", "test", <<"throw">>)
    /\ UNCHANGED <<testRuns, module, userOptions, closeStatus, hostObject, lastCmd,
                   subStatus, options, files, excludedTasks, tasks, pending,
                   active, done, everDone, watches, nodemon, child, timers, now,
                   hist>>

\* The bodies whose pipeline passes through gp.plumber(): an error of a
\* transform piped after it is handled there and logged.
PlumbedBodies == {"styles"}

\* A stream of the pipeline of a running task emits an error.  The streams
\* are connected with pipe, which forwards no error, and the scheduler
\* listens only on the stream the body returns.
\*  - The error of a stream before the returned one, with no plumber before
\*    it, has no handler: node throws it and the process ends with code 1.
\*  - After a plumber the error is logged and the pipeline goes on.
\*  - The error of the returned stream reaches the scheduler's listener: the
\*    task fails, the scheduler stops the run (the tasks of the run that have
\*    not started are dropped) and the process goes on.  (The exit code the
\*    gulp command line gives a process in which a task has failed is not
\*    modelled.)
TransformError(t) ==
    /\ pc = "running"
    /\ t \in active
    /\ UNCHANGED <<testRuns, module, userOptions, closeStatus, hostObject, lastCmd, subStatus,
                   options, files, excludedTasks, tasks, done, everDone,
                   watches, nodemon, child, timers, now, hist>>
    /\ \/ /\ pc' = "exited"
          /\ exitCode' = 1
          /\ last' = Did("error", t, <<"throw">>)
          /\ UNCHANGED <<pending, active>>
       \/ /\ tasks[t].fn \in PlumbedBodies
          /\ last' = Did("error", t, <<"log">>)
          /\ UNCHANGED <<pc, exitCode, pending, active>>
       \/ /\ active' = active \ {t}
          /\ pending' = {}
          /\ last' = Did("error", t, <<"task failed">>)
          /\ Settle

\* gulp.start(names) from a watch binding: the named tasks and their
\* dependencies are reset and added to the run; a task that is still
\* running is not started again.  A name that does not resolve ends the
\* process with code 1.
WatchStart(f, names) ==
    /\ IF StartFails(tasks, names)
       THEN /\ pc' = "exited"
            /\ exitCode' = 1
            /\ UNCHANGED <<pending, done>>
       ELSE /\ pending' = (pending \cup Reach(tasks, Range(names))) \ active
            /\ done' = IF pending \cup active = {} THEN {}
                       ELSE done \ Reach(tasks, Range(names))
            /\ UNCHANGED <<pc, exitCode>>
    /\ last' = Did("change", f, [i \in DOMAIN names |-> "start " \o names[i]])
    /\ UNCHANGED <<child, timers, lastCmd>>

\* reloadable('gulpfile.js', ...): log, process.exit(0).
OnGulpfile(f) ==
    /\ pc' = "exited"
    /\ exitCode' = 0
    /\ last' = Did("change", f, <<"log", "exit 0">>)
    /\ UNCHANGED <<pending, done, child, timers, lastCmd>>

\* A mutation of OnPackage: the prune step is left out.
OnPackageNoPrune(f) ==
    /\ \E install \in ExitStatuses :
         /\ last' = Did("change", f,
                <<"log", "npm install">> \o
                (IF install # 0 THEN <<"throw">> ELSE <<"exit 0">>))
         /\ exitCode' = IF install = 0 THEN 0 ELSE 1
         /\ lastCmd' = Ran("npm install", install)
    /\ pc' = "exited"
    /\ UNCHANGED <<pending, done, child, timers>>

\* reloadable('package.json', ...): log, npm install, npm prune,
\* process.exit(0).  execSync throws on a non-zero status: the exception is
\* not caught and node ends the process with code 1.
OnPackage(f) ==
    /\ \E install \in ExitStatuses, prune \in ExitStatuses :
         /\ last' = Did("change", f,
                <<"log", "npm install">> \o
                (IF install # 0 THEN <<"throw">>
                 ELSE <<"npm prune">> \o
                      (IF prune # 0 THEN <<"throw">> ELSE <<"exit 0">>)))
         /\ exitCode' = IF install = 0 /\ prune = 0 THEN 0 ELSE 1
         /\ lastCmd' = IF install # 0 THEN Ran("npm install", install)
                      ELSE Ran("npm prune", prune)
    /\ pc' = "exited"
    /\ UNCHANGED <<pending, done, child, timers>>

\* reloadable('bower.json', ...): log, bower install, then a gulp child
\* running build; the process exits when that child closes (ChildClose).
OnBower(f) ==
    /\ \E install \in ExitStatuses :
         /\ lastCmd' = Ran("bower install", install)
         /\ IF install = 0
            THEN /\ child' = Append(child, Name(options, "build"))
                 /\ last' = Did("change", f, <<"log", "bower install",
                                              "spawn " \o Name(options, "build")>>)
                 /\ UNCHANGED <<pc, exitCode>>
            ELSE /\ pc' = "exited"
                 /\ exitCode' = 1
                 /\ last' = Did("change", f, <<"log", "bower install", "throw">>)
                 /\ UNCHANGED child
    /\ UNCHANGED <<pending, done, timers>>

\* The live-reload watch: log, then a timer of ReloadDelay for the
\* notification of this change.
OnDestChange(f) ==
    /\ timers' = Append(timers, [file |-> f, due |-> now + ReloadDelay])
    /\ last' = Did("change", f, <<"log", "timer">>)
    /\ UNCHANGED <<pending, done, child, pc, exitCode, lastCmd>>

\* The callback of a watch binding, run for a change of file f.
Handle(b, f) ==
    \/ /\ b.act.k = "tasks"
       /\ WatchStart(f, b.act.names)
    \/ /\ b.act.k = "cb"
       /\ b.act.id = "gulpfile"
       /\ IF Contains(EventPath(f), b.act.file) THEN OnGulpfile(f)
          ELSE UNCHANGED <<pending, done, child, timers, pc, exitCode, last,
                           lastCmd>>
    \/ /\ b.act.k = "cb"
       /\ b.act.id = "package"
       /\ IF Contains(EventPath(f), b.act.file) THEN OnPackage(f)
          ELSE UNCHANGED <<pending, done, child, timers, pc, exitCode, last,
                           lastCmd>>
    \/ /\ b.act.k = "cb"
       /\ b.act.id = "bower"
       /\ IF Contains(EventPath(f), b.act.file) THEN OnBower(f)
          ELSE UNCHANGED <<pending, done, child, timers, pc, exitCode, last,
                           lastCmd>>
    \/ /\ b.act.k = "cb"
       /\ b.act.id = "livereload"
       /\ OnDestChange(f)

\* The counters after a change handled by binding b: the changes delivered,
\* and, for the live-reload binding, the changes it has seen with the times
\* of the first and the latest of them.
HistAfter(b) ==
    IF b.act.k = "cb" /\ b.act.id = "livereload"
    THEN [hist EXCEPT !.changes = @ + 1,
                      !.reloads = @ + 1,
                      !.first = IF hist.reloads = 0 THEN now ELSE @,
                      !.latest = now]
    ELSE [hist EXCEPT !.changes = @ + 1]

\* A file changes while the process has watchers: the callback of a binding
\* whose glob matches the file runs; a file that no binding matches starts
\* nothing.
Change(f) ==
    /\ pc = "running"
    /\ watches # {}
    /\ hist.changes < MaxEvents
    /\ UNCHANGED <<testRuns, module, userOptions, closeStatus, hostObject, subStatus, options, files,
                   excludedTasks, tasks, active, everDone, watches, nodemon, now>>
    /\ IF \E b \in watches : Matches(b.glob, f)
       THEN \E b \in watches :
               /\ Matches(b.glob, f)
               /\ Handle(b, f)
               /\ hist' = HistAfter(b)
       ELSE /\ last' = Did("change", f, <<>>)
            /\ hist' = [hist EXCEPT !.changes = @ + 1]
            /\ UNCHANGED <<pending, done, child, timers, pc, exitCode,
                           lastCmd>>

\* The timer of the oldest pending live-reload notification fires:
\* livereload.changed for the file of its change.
Fire ==
    /\ pc = "running"
    /\ timers # <<>>
    /\ now >= Head(timers).due
    /\ timers' = Tail(timers)
    /\ hist' = [hist EXCEPT !.notified = @ + 1]
    /\ last' = Did("notify", Head(timers).file, <<"notify">>)
    /\ UNCHANGED <<testRuns, module, userOptions, closeStatus, hostObject, lastCmd, subStatus, options, files,
                   excludedTasks, tasks, pc, exitCode, pending, active, done,
                   everDone, watches, nodemon, child, now>>

\* Time passes; a timer that is due fires before time passes it by.
Tick ==
    /\ pc = "running"
    /\ watches # {}
    /\ now < MaxTime
    /\ timers # <<>> => now < Head(timers).due
    /\ now' = now + TickMs
    /\ UNCHANGED <<testRuns, module, userOptions, closeStatus, hostObject, lastCmd, subStatus, options, files,
                   excludedTasks, tasks, pc, exitCode, pending, active, done,
                   everDone, watches, nodemon, child, timers, last, hist>>

\* A mutation of NodemonEvent: the crash event ends the process as the quit
\* event does.
NodemonEventCrashExits(e) ==
    /\ pc = "running"
    /\ nodemon # "off"
    /\ \/ /\ e = "restart"
          /\ nodemon' = "running"
          /\ UNCHANGED <<pc, exitCode, subStatus>>
       \/ /\ e = "crash"
          /\ nodemon = "running"
          /\ nodemon' = "crashed"
          /\ pc' = "exited"
          /\ exitCode' = 0
          /\ UNCHANGED subStatus
       \/ /\ e = "quit"
          /\ \E status \in ExitStatuses : subStatus' = status
          /\ pc' = "exited"
          /\ exitCode' = 0
          /\ UNCHANGED nodemon
    /\ last' = Did("nodemon", e, IF e = "quit" THEN <<"log", "exit">> ELSE <<"log">>)
    /\ UNCHANGED <<testRuns, module, userOptions, closeStatus, hostObject, lastCmd, options, files,
                   excludedTasks, tasks, pending, active, done, everDone,
                   watches, child, timers, now, hist>>

\* The events of the subordinate server under nodemon: restart and crash are
\* logged; quit is logged and followed by process.exit().
NodemonEvent(e) ==
    /\ pc = "running"
    /\ nodemon # "off"
    /\ \/ /\ e = "restart"
          /\ nodemon' = "running"
          /\ UNCHANGED <<pc, exitCode, subStatus>>
       \/ /\ e = "crash"
          /\ nodemon = "running"
          /\ nodemon' = "crashed"
          /\ UNCHANGED <<pc, exitCode, subStatus>>
       \/ /\ e = "quit"
          /\ \E status \in ExitStatuses : subStatus' = status
          /\ pc' = "exited"
          /\ exitCode' = 0
          /\ UNCHANGED nodemon
    /\ last' = Did("nodemon", e, IF e = "quit" THEN <<"log", "exit">> ELSE <<"log">>)
    /\ UNCHANGED <<testRuns, module, userOptions, closeStatus, hostObject, lastCmd, options, files,
                   excludedTasks, tasks, pending, active, done, everDone,
                   watches, child, timers, now, hist>>

\* A mutation of ChildClose: a demon child is spawned again whatever the
\* status the previous one closed with.
ChildCloseRespawnAlways(status) ==
    /\ pc = "running"
    /\ child # <<>>
    /\ closeStatus' = status
    /\ UNCHANGED <<testRuns, module, userOptions, hostObject, lastCmd, subStatus, options, files,
                   excludedTasks, tasks, pending, active, done, everDone,
                   watches, nodemon, timers, now, hist>>
    /\ IF Head(child) = Name(options, "build")
       THEN /\ pc' = "exited"
            /\ exitCode' = status
            /\ UNCHANGED child
            /\ last' = Did("close", Head(child), <<"exit">>)
       ELSE /\ child' = Append(Tail(child), Head(child))
            /\ last' = Did("close", Head(child), <<"spawn " \o Head(child)>>)
            /\ Settle

\* A mutation of ChildClose: the close of a build child ends the process
\* with code 0 whatever the status of the child.
ChildCloseExitZero(status) ==
    /\ pc = "running"
    /\ child # <<>>
    /\ closeStatus' = status
    /\ UNCHANGED <<testRuns, module, userOptions, hostObject, lastCmd, subStatus, options, files,
                   excludedTasks, tasks, pending, active, done, everDone,
                   watches, nodemon, timers, now, hist>>
    /\ IF Head(child) = Name(options, "build")
       THEN /\ pc' = "exited"
            /\ exitCode' = 0
            /\ UNCHANGED child
            /\ last' = Did("close", Head(child), <<"exit">>)
       ELSE /\ child' = IF status = 0 THEN Append(Tail(child), Head(child))
                        ELSE Tail(child)
            /\ last' = Did("close", Head(child),
                           IF status = 0 THEN <<"spawn " \o Head(child)>> ELSE <<>>)
            /\ Settle

\* The oldest gulp child closes with a status.  A build child (bower.json
\* handler): process.exit(status).  A demon child (dev task): a new demon
\* child is spawned when the status is 0, none otherwise.
ChildClose(status) ==
    /\ pc = "running"
    /\ child # <<>>
    /\ closeStatus' = status
    /\ UNCHANGED <<testRuns, module, userOptions, hostObject, lastCmd, subStatus, options, files,
                   excludedTasks, tasks, pending, active, done, everDone,
                   watches, nodemon, timers, now, hist>>
    /\ IF Head(child) = Name(options, "build")
       THEN /\ pc' = "exited"
            /\ exitCode' = status
            /\ UNCHANGED child
            /\ last' = Did("close", Head(child), <<"exit">>)
       ELSE /\ child' = IF status = 0 THEN Append(Tail(child), Head(child))
                        ELSE Tail(child)
            /\ last' = Did("close", Head(child),
                           IF status = 0 THEN <<"spawn " \o Head(child)>> ELSE <<>>)
            /\ Settle

Next ==
    \/ Begin
    \/ BeginPart000
    \/ \E t \in DOMAIN tasks \cup Range(BaseNames) : Start(t)
    \/ \E t \in DOMAIN tasks : StartBody(t)
    \/ \E t \in DOMAIN tasks : FinishBody(t)
    \/ \E t \in DOMAIN tasks : TransformError(t)
    \/ TestPipelineEnd
    \/ TestPipelineError
    \/ \E f \in EventFiles : Change(f)
    \/ Fire
    \/ Tick
    \/ \E e \in {"restart", "crash", "quit"} : NodemonEvent(e)
    \/ \E status \in ExitStatuses : ChildClose(status)

Spec == Init /\ [][Next]_vars

\* The registry and the scheduler on their own, over every combination of
\* prefix, exclude, only and warnExclusions.
NextRegistry ==
    \/ Begin
    \/ BeginPart000
    \/ \E t \in DOMAIN tasks \cup Range(BaseNames) : Start(t)
    \/ \E t \in DOMAIN tasks : StartBody(t)
    \/ \E t \in DOMAIN tasks : FinishBody(t)
    \/ TestPipelineEnd
    \/ TestPipelineError

SpecRegistry == InitRegistry /\ [][NextRegistry]_vars

\* The configuration resolver and the path resolver on their own.
NextResolve == Begin \/ BeginPart000

SpecResolve == InitResolve /\ [][NextResolve]_vars

-----------------------------------------------------------------------------
(* Claims.                                                                 *)

\* The exported function of either module has returned: the options are
\* resolved and the tasks registered.
Returned == pc # "load" /\ options.t = "obj"

\* begin, the function gulp-begin.js exports, has returned.
Begun == Returned /\ module = "gulp-begin.js"

\* The supervisor is Watching: the server function has run in this process.
Watching == nodemon # "off"

\* C1: after begin has registered its tasks, every dependency name declared
\* by a task that begin handed to the scheduler is a name defined in the
\* scheduler, for every combination of exclude, only, warnExclusions, prefix.
C1_NoDanglingDependency ==
    Begun =>
        \A n \in DefinedNames(options, excludedTasks) :
            Range(tasks[n].dep) \subseteq DOMAIN tasks

\* The files that match the styles source or the styles include patterns.
StylesFiles ==
    {f \in EventFiles : Matches(files.stylesMain \o files.stylesInclude, f)}

\* C2: while Watching, a change of a file matching the styles source or
\* include patterns starts the styles task exactly once and starts no other
\* task.
C2_StylesChangeStartsStyles ==
    (Watching /\ last.op = "change" /\ last.task \in StylesFiles) =>
        last.eff = <<"start " \o Name(options, "styles")>>

\* C3: whenever options.exclude is present, an empty array included, the
\* exclusion list is exactly options.exclude, whatever options.only holds.
C3_ExcludePresentWins ==
    (Begun /\ Get(userOptions, "exclude").t # "undef") =>
        excludedTasks = Strings(Get(userOptions, "exclude"))

\* C3 witness: begin has run with an empty exclude array and an only list,
\* and the exclusion list is empty.
C3_Witness ==
    /\ Begun
    /\ Get(userOptions, "exclude") = StrArr(<<>>)
    /\ IsArr(Get(userOptions, "only"))
    /\ excludedTasks = <<>>

\* The default task names the registration treats as excluded, when
\* warnExclusions is set.
WarnedStubs ==
    IF Begun /\ Truthy(Get(options, "warnExclusions"))
    THEN {n \in Range(AllDefaultTaskNames(options)) :
             IsExcluded(options, excludedTasks, n)}
    ELSE {}

\* C4: an excluded task with warnExclusions set is registered without the
\* dependencies and without the body of the real task; invoking its name
\* never fails to start, every run of it emits exactly one warning naming
\* the task and nothing else (no write), and it never runs as a stream.
C4_StubWarnsOnce ==
    \A n \in WarnedStubs :
        /\ n \in DOMAIN tasks
        /\ tasks[n].dep = <<>>
        /\ tasks[n].fn \notin Range(BaseNames) \cup {"noop"}
        /\ n \notin active
        /\ (last.op = "start" /\ last.task = n) => (pc = "running" /\ pending = {n})
        /\ (last.op = "body" /\ last.task = n) => last.eff = <<"warn " \o n>>

\* C4 witness: while Watching, after two file changes, the stub of the
\* excluded html task has just run and warned.
C4_Witness ==
    /\ Watching
    /\ hist.changes = 2
    /\ last.op = "body"
    /\ last.task \in WarnedStubs
    /\ last.eff = <<"warn " \o last.task>>

\* C5: a default task is treated as excluded (left out, or registered as the
\* warning stub) whenever the exclusion list holds its base name or its
\* prefixed name.
C5_ExcludedByEitherName ==
    Begun =>
        \A i \in DOMAIN BaseNames :
            (BaseNames[i] \in Range(excludedTasks)
                \/ Name(options, BaseNames[i]) \in Range(excludedTasks))
            => (Name(options, BaseNames[i]) \in DOMAIN tasks
                    => tasks[Name(options, BaseNames[i])] = Stub)

\* C6: every task name the engine refers to (a declared dependency, the
\* task of a watch binding, the task argument of a spawned gulp process) is
\* the prefix-qualified name of a default task.
C6_ReferencesAreQualified ==
    Begun =>
        /\ \A n \in DefinedNames(options, excludedTasks) :
              Range(tasks[n].dep) \subseteq Range(AllDefaultTaskNames(options))
        /\ \A b \in watches :
              Range(b.act.names) \subseteq Range(AllDefaultTaskNames(options))
        /\ Range(child) \subseteq Range(AllDefaultTaskNames(options))

RECURSIVE GetPath(_, _)
GetPath(o, path) ==
    IF path = <<>> THEN o ELSE GetPath(Get(o, Head(path)), Tail(path))

\* The key paths whose default value is an array.
ArrayPaths ==
    {<<"server", "watch">>, <<"client", "html", "src">>,
     <<"client", "scripts", "lib">>, <<"client", "scripts", "src">>,
     <<"client", "styles", "include", "lib">>,
     <<"client", "styles", "include", "src">>, <<"client", "styles", "src">>,
     <<"client", "templates", "src">>, <<"client", "images", "src">>,
     <<"test", "watch">>}

\* C7: in the resolved configuration every array-valued key for which the
\* caller supplied an array holds exactly the caller's array, however short.
C7_CallerArrayReplacesDefault ==
    pc = "ready" =>
        \A p \in ArrayPaths :
            IsArr(GetPath(userOptions, p)) =>
                GetPath(options, p) = GetPath(userOptions, p)

\* The steps of a handler, its log lines left out.
Steps(eff) == SelectSeq(eff, LAMBDA x : x # "log")

PackageChanged == Watching /\ last.op = "change" /\ last.task = "package.json"

\* C8 as stated: while Watching, a change to package.json runs the package
\* install, then the prune step, then exits the process with code 0, with no
\* rebuild task started in between.
C8_InstallPruneExit ==
    PackageChanged =>
        /\ Steps(last.eff) = <<"npm install", "npm prune", "exit 0">>
        /\ pc = "exited"
        /\ exitCode = 0

\* C8 amended: while Watching, a change to package.json runs the package
\* install; the prune step follows only when the install exits with status
\* 0, and the exit with code 0 only when the prune exits with status 0; a
\* step that fails throws and ends the process there.  In every case the
\* process has ended when the handler returns and no rebuild task is started.
C8_InstallPruneExitWhenEachSucceeds ==
    PackageChanged =>
        /\ Steps(last.eff) \in {<<"npm install", "throw">>,
                               <<"npm install", "npm prune", "throw">>,
                               <<"npm install", "npm prune", "exit 0">>}
        /\ pc = "exited"
        /\ exitCode = (IF Steps(last.eff)[Len(Steps(last.eff))] = "exit 0"
                       THEN 0 ELSE 1)

\* C8 witness: the handler of a package.json change has run the install and
\* the prune and has exited the process with code 0.
C8_Witness ==
    /\ PackageChanged
    /\ last.eff = <<"log", "npm install", "npm prune", "exit 0">>
    /\ pc = "exited"
    /\ exitCode = 0

\* The names of the build aggregation: build and the four tasks it depends on.
BuildNames ==
    {Name(options, b) : b \in {"build", "html", "styles", "scripts", "images"}}

\* C9: whenever build is not excluded, the supervisor is Watching only after
\* a run of the build aggregation (html, styles, scripts, images and build)
\* has completed in this process.
C9_BuildBeforeWatching ==
    (Begun /\ Watching
       /\ ~IsExcluded(options, excludedTasks, Name(options, "build")))
    => BuildNames \subseteq everDone

\* C10: the changes under the client destination directory that arrive
\* within one ReloadDelay window lead to at most one notification, and to
\* exactly one once no timer is pending.
C10_OneNotificationPerBurst ==
    (pc = "running" /\ hist.reloads >= 1
       /\ hist.latest - hist.first < ReloadDelay)
    => /\ hist.notified <= 1
       /\ timers = <<>> => hist.notified = 1

\* The process has ended by the deliberate exit of a self-restart handler:
\* the handler of a gulpfile.js or package.json change reached its exit.
SelfRestarted ==
    /\ pc = "exited"
    /\ last.op = "change"
    /\ last.task \in {"gulpfile.js", "package.json"}
    /\ last.eff # <<>>
    /\ last.eff[Len(last.eff)] = "exit 0"

\* The process has ended in the handler of the subordinate server's quit event.
SubordinateQuit == pc = "exited" /\ last.op = "nodemon" /\ last.task = "quit"

\* C11: the supervisor process exits with code 0 when it ends by a
\* deliberate self-restart (a gulpfile.js or package.json change), and with
\* the subordinate server's exit code when it ends because the subordinate
\* server emitted its quit event.
C11_ExitCodeOfSupervisor ==
    /\ SelfRestarted => exitCode = 0
    /\ SubordinateQuit => exitCode = subStatus

\* The commands that install dependencies.
Installs == {"npm install", "bower install"}

\* The latest command the process ran is a dependency installation that
\* ended with a non-zero status.
InstallFailed == lastCmd.cmd \in Installs /\ lastCmd.status # 0

\* C12: on every path that runs a dependency installation (the package.json
\* handler, the bower.json handler, the dev task), an installation that ends
\* with a non-zero status is the last step that runs (no prune, no spawned
\* build, no spawned demon, no exit with code 0) and the process ends with
\* the exit status of that installation.
C12_FailedInstallEndsWithItsStatus ==
    InstallFailed =>
        /\ Steps(last.eff) = <<lastCmd.cmd, "throw">>
        /\ pc = "exited"
        /\ exitCode = lastCmd.status

\* The task a base name stands for in defaultTasks: the dependencies and the
\* body its entry declares.
Declared(o, base) ==
    LET args == DefaultTaskArgs(o, base)
        deps == SelectSeq(args, LAMBDA a : a.k = "deps")
        fns == SelectSeq(args, LAMBDA a : a.k = "fn")
    IN  [dep |-> IF deps = <<>> THEN <<>> ELSE deps[1].names,
         fn |-> IF fns = <<>> THEN "noop" ELSE fns[1].body]

\* The host gave only and no exclude.
OnlyGiven ==
    /\ Begun
    /\ Get(userOptions, "exclude") = Undef
    /\ IsArr(Get(userOptions, "only"))

\* C13: when exclude is absent and only is given, the exclusion set is the
\* set of all default task names without the prefix-qualified names listed
\* in only, and a default task is registered as its entry declares it, with
\* its real body, if and only if its base name is in only.
C13_OnlyKeepsListedTasks ==
    OnlyGiven =>
        LET only == Range(Strings(Get(userOptions, "only"))) IN
        /\ Range(excludedTasks) =
              Range(AllDefaultTaskNames(options)) \ {Name(options, y) : y \in only}
        /\ \A b \in Range(BaseNames) :
              (/\ Name(options, b) \in DOMAIN tasks
               /\ tasks[Name(options, b)] = Declared(options, b))
              <=> b \in only

\* The key paths of the leaves of a configuration: the values that are not
\* objects (strings and arrays).
RECURSIVE LeafPathsOf(_)
LeafPathsOf(o) ==
    IF o.t = "obj"
    THEN UNION {{<<k>> \o p : p \in LeafPathsOf(o.v[k])} : k \in DOMAIN o.v}
    ELSE {<<>>}

\* C14: for every options value the host supplies, the resolved
\* configuration has a value at every leaf path of the defaults; at a leaf
\* path where the host supplies a value the resolved value is the host's
\* value, and at a leaf path absent from the host's options it is the default.
C14_LeavesFromCallerElseDefault ==
    pc = "ready" =>
        \A p \in LeafPathsOf(Defaults(userOptions)) :
            /\ GetPath(options, p) # Undef
            /\ GetPath(userOptions, p) # Undef =>
                  GetPath(options, p) = GetPath(userOptions, p)
            /\ GetPath(userOptions, p) = Undef =>
                  GetPath(options, p) = GetPath(Defaults(userOptions), p)

\* C15: resolving is idempotent: resolving the resolved configuration again
\* gives the same configuration, the server.watch default derived from
\* server.cwd included.
C15_ResolveIsIdempotent ==
    pc = "ready" => Resolve(options) = options

\* C15 witness: the host gave server.cwd and no server.watch; the resolved
\* server.watch starts with the pattern derived from that directory and a
\* second resolution derives the same pattern.
C15_Witness ==
    /\ pc = "ready"
    /\ GetPath(userOptions, <<"server", "cwd">>) = Str("srv")
    /\ GetPath(userOptions, <<"server", "watch">>) = Undef
    /\ GetPath(options, <<"server", "watch">>) =
          Arr(<<Str("srv/**/*.js"), Str("*.js")>>)
    /\ DefaultServerWatchHead(options) = Str("srv/**/*.js")
    /\ Resolve(options) = options

\* The file sets of the path resolver: the field of files, the key path of
\* its scope in the configuration, and the type of the set.
FileSets ==
    {[field |-> "html", scope |-> <<"client", "html">>, type |-> "src"],
     [field |-> "templates", scope |-> <<"client", "templates">>, type |-> "src"],
     [field |-> "scripts", scope |-> <<"client", "scripts">>, type |-> "src"],
     [field |-> "stylesMain", scope |-> <<"client", "styles">>, type |-> "src"],
     [field |-> "stylesInclude", scope |-> <<"client", "styles", "include">>,
      type |-> "src"],
     [field |-> "images", scope |-> <<"client", "images">>, type |-> "src"],
     [field |-> "libScripts", scope |-> <<"client", "scripts">>, type |-> "lib"],
     [field |-> "libStylesInclude", scope |-> <<"client", "styles", "include">>,
      type |-> "lib"]}

\* The prefix of a file set as the claim words it: client.cwd then the
\* directory of the category, the falsy ones left out, for a source set;
\* client.lib for a library set.
ClaimedPrefix(o, s) ==
    IF s.type = "lib" THEN <<GetPath(o, <<"client", "lib">>).v>>
    ELSE LET segs == <<GetPath(o, <<"client", "cwd">>),
                       Get(GetPath(o, s.scope), "cwd")>>
             kept == SelectSeq(segs, Truthy)
         IN [i \in DOMAIN kept |-> kept[i].v]

\* C16: for each category the path resolver returns a list whose i-th
\* element is the join of the prefix and the i-th configured pattern, in the
\* configured order; the prefix is client.cwd then the category's cwd, each
\* falsy segment left out, for a source set and client.lib for a library
\* set; a repeated call on the same configuration returns the same lists.
C16_PathsJoinPrefixInOrder ==
    pc = "ready" =>
        /\ \A s \in FileSets :
              LET patterns == Get(GetPath(options, s.scope), s.type).v IN
              /\ Len(files[s.field]) = Len(patterns)
              /\ \A i \in DOMAIN patterns :
                    files[s.field][i] =
                        PathJoin(ClaimedPrefix(options, s) \o <<patterns[i].v>>)
        /\ Files(options) = files

\* C16 witness: client.cwd is the empty string and is left out of the
\* scripts sources, which keep the order of the configured patterns; the
\* library set is joined to client.lib.
C16_Witness ==
    /\ pc = "ready"
    /\ GetPath(options, <<"client", "cwd">>) = Str("")
    /\ GetPath(options, <<"client", "scripts", "src">>) =
          Arr(<<Str("a.js"), Str("*/**/*.js")>>)
    /\ files.scripts = <<"scripts/a.js", "scripts/*/**/*.js">>
    /\ files.libScripts = <<"bower_components/jq.js">>

\* C17: resolving the configuration has no side effect: no step changes the
\* options object the host supplied (no key is added or modified), and the
\* resolved configuration is not changed once it has been created.
C17_ResolutionHasNoSideEffect ==
    [][/\ hostObject' = hostObject
       /\ options # Undef => options' = options]_vars

\* A leaf the host supplied that is malformed: null, or not a list where
\* the default is a list.
MalformedLeaf(p) ==
    \/ GetPath(userOptions, p) = Null
    \/ /\ p \in ArrayPaths
       /\ GetPath(userOptions, p) # Undef
       /\ ~IsArr(GetPath(userOptions, p))

\* C18: begin never raises, whatever options value it is given: options
\* that are absent or not an object are treated as the empty object, and a
\* leaf that is malformed (a null cwd or lib, a src that is not a list) is
\* replaced by its default.
C18_BeginNeverRaises ==
    pc # "load" =>
        /\ last.eff # <<"throw">>
        /\ options.t = "obj"
        /\ ~IsObject(userOptions) => options = Resolve(EmptyObj)
        /\ \A p \in LeafPathsOf(Defaults(userOptions)) :
              MalformedLeaf(p) =>
                  GetPath(options, p) = GetPath(Defaults(userOptions), p)

\* The host gave neither exclude nor only.
NoFilter ==
    /\ Returned
    /\ Get(userOptions, "exclude") = Undef
    /\ Get(userOptions, "only") = Undef

\* A name with the prefix the host gave, if it gave one.
Qualified(b) ==
    IF Get(userOptions, "prefix") = Undef THEN b
    ELSE Get(userOptions, "prefix").v \o "_" \o b

\* The names the exported function has registered: the registry without the
\* host's own tasks.
RegisteredByBegin == DOMAIN tasks \ DOMAIN HostTasks

\* C19: with no exclude and no only, the names registered with
\* the scheduler are exactly html, lint, scripts, styles, images, build,
\* server, demon, dev, test, autotest, docs and changelog, each qualified
\* with the prefix when one is given.
C19_RegisteredNamesWithLint ==
    NoFilter =>
        RegisteredByBegin =
            {Qualified(b) : b \in {"html", "lint", "scripts", "styles",
                                   "images", "build", "server", "demon", "dev",
                                   "test", "autotest", "docs", "changelog"}}

\* The category rebuild tasks.
CategoryNames == {Name(options, b) : b \in {"html", "scripts", "styles", "images"}}

\* The process is between the start of the handling of a manifest change
\* and its exit: the bower.json handler has installed and has spawned the
\* build whose end the process waits for.  (The package.json handler ends
\* the process before it returns.)
ManifestInProgress == pc = "running" /\ Name(options, "build") \in Range(child)

\* This step is the handling of a change to package.json or bower.json.
HandlesManifest ==
    /\ last'.op = "change"
    /\ last'.task \in {"package.json", "bower.json"}
    /\ last' # last

\* C20: from the moment the watching process starts handling a manifest
\* change (package.json or bower.json) until that process exits, no category
\* rebuild task (html, scripts, styles, images) is started in the watching
\* process: neither by the handler itself nor while the reinstall or the
\* build spawned after it is in progress.
C20_NoRebuildDuringManifestChange ==
    [][/\ HandlesManifest => pending' \subseteq pending
       /\ ManifestInProgress =>
             \A t \in CategoryNames : ~(t \in pending /\ t \notin pending')]_vars

BowerChanged == Watching /\ last.op = "change" /\ last.task = "bower.json"

\* The process has ended in the close callback of the spawned build.
BuildClosed ==
    pc = "exited" /\ last.op = "close" /\ last.task = Name(options, "build")

\* C21 as stated: while Watching, a change to bower.json runs the library
\* reinstall, then spawns a build process, and the watching process exits
\* when that build closes, with the exit code of the build, and not before.
C21_BowerInstallSpawnExit ==
    /\ BowerChanged =>
          /\ Steps(last.eff) = <<"bower install", "spawn " \o Name(options, "build")>>
          /\ pc = "running"
    /\ (pc = "exited" /\ Name(options, "build") \in Range(child)) =>
          (BuildClosed /\ exitCode = closeStatus)

\* C21 amended: while Watching, a change to bower.json runs the library
\* reinstall; when it exits with status 0 a build process is spawned and the
\* watching process keeps running, otherwise the handler throws and the
\* process ends there with no build spawned; when the process ends in the
\* close callback of the spawned build it ends with the exit code of the
\* build.
C21_BowerInstallSpawnExitWhenInstallSucceeds ==
    /\ BowerChanged =>
          /\ lastCmd.cmd = "bower install"
          /\ IF lastCmd.status = 0
             THEN /\ Steps(last.eff) =
                        <<"bower install", "spawn " \o Name(options, "build")>>
                  /\ child # <<>>
                  /\ child[Len(child)] = Name(options, "build")
                  /\ pc = "running"
             ELSE /\ Steps(last.eff) = <<"bower install", "throw">>
                  /\ pc = "exited"
    /\ BuildClosed =>
          /\ Name(options, "build") \in Range(child)
          /\ lastCmd = Ran("bower install", 0)
          /\ exitCode = closeStatus

\* C21 witness: after a bower.json change with a successful reinstall the
\* spawned build has closed with status 2 and the watching process has ended
\* with code 2.
C21_Witness ==
    /\ Watching
    /\ BuildClosed
    /\ lastCmd = Ran("bower install", 0)
    /\ closeStatus = 2
    /\ exitCode = 2

\* C22: while Watching, the restart and the crash event of the subordinate
\* server are logged and leave the process running and Watching with every
\* watch binding still installed; the quit event is logged and then ends the
\* process; the process never ends in response to a restart or a crash.
C22_OnlyQuitEndsTheProcess ==
    [][last'.op = "nodemon" =>
          /\ Watching'
          /\ watches' = watches
          /\ ServerWatches(options, files) \subseteq watches'
          /\ last'.eff[1] = "log"
          /\ IF last'.task = "quit"
             THEN pc' = "exited" /\ last'.eff = <<"log", "exit">>
             ELSE /\ last'.task \in {"restart", "crash"}
                  /\ pc' = "running"
                  /\ last'.eff = <<"log">>]_vars

\* C22 witness: the subordinate server has crashed; the crash was logged and
\* the process is running with its watch bindings installed.
C22_Witness ==
    /\ last = Did("nodemon", "crash", <<"log">>)
    /\ nodemon = "crashed"
    /\ pc = "running"
    /\ watches = ServerWatches(options, files)
    /\ watches # {}

\* C23: while Watching, an error emitted by the pipeline of a watch-triggered
\* category task (html, scripts, styles, images) fails that task only: the
\* process keeps running and Watching with its watch bindings installed, so
\* that other tasks go on and later changes still start their tasks.
C23_PipelineErrorKeepsWatching ==
    (Watching /\ last.op = "error" /\ last.task \in CategoryNames) =>
        /\ pc = "running"
        /\ watches = ServerWatches(options, files)

\* This step reports the test task complete to the scheduler.
TestCompletes ==
    /\ Returned
    /\ ~IsExcluded(options, excludedTasks, Name(options, "test"))
    /\ Name(options, "test") \notin done
    /\ Name(options, "test") \in done'

\* C24: in every run of the test task the linter has completed, then the
\* server sources are instrumented, then the test entry point is executed,
\* then the coverage reports are written, and only then is the test task
\* reported complete to the scheduler.
C24_TestStepsBeforeComplete ==
    [][TestCompletes =>
          /\ Name(options, "jshint") \in done
          /\ last'.task = Name(options, "test")
          /\ last'.eff = <<"instrument", "run tests", "write reports">>]_vars

\* The tasks whose category the claim gives a delete step.
CleaningNames == {Name(options, b) : b \in {"html", "images"}}

\* This step invokes the body of the html or of the images task.
InvokesCleaning ==
    /\ Returned
    /\ last'.op = "body"
    /\ last'.task \in CleaningNames
    /\ last'.task \in active' \ active

\* This step ends the stream of the html or of the images task: the new
\* artifacts are written.
WritesCleaning ==
    /\ Returned
    /\ last'.op = "finish"
    /\ last'.task \in CleaningNames
    /\ last'.task \in active \ active'

\* C25: in every invocation of the html task and of the images task the
\* stale output at the destination of the category is deleted before the new
\* artifacts are written, and no source file of the category is deleted.
C25_StaleOutputDeletedBeforeWrite ==
    [][/\ InvokesCleaning =>
             /\ "delete stale output" \in Range(last'.eff)
             /\ "delete sources" \notin Range(last'.eff)
       /\ WritesCleaning =>
             /\ "delete stale output" \notin Range(last'.eff)
             /\ "delete sources" \notin Range(last'.eff)]_vars

\* The demon children of this process that are alive.
DemonChildren(ch) == {i \in DOMAIN ch : ch[i] = Name(options, "demon")}

\* This step is the close of a demon child.
DemonCloses ==
    /\ pc = "running"
    /\ DemonChildren(child) # {}
    /\ last'.op = "close"
    /\ last'.task = Name(options, "demon")

\* C26: in the dev task, after the initial install, at most one demon child
\* is alive at any time; a demon child is spawned by the dev body after a
\* successful install or by the close of the previous one, and after a close
\* if and only if the child closed with status 0; once a child has closed
\* with another status none is alive and none is spawned again.
C26_OneDemonChildRespawnedOnZero ==
    [][/\ Cardinality(DemonChildren(child')) <= 1
       /\ (DemonChildren(child) = {} /\ DemonChildren(child') # {}) =>
             /\ last'.op = "body"
             /\ lastCmd' = Ran("npm install", 0)
       /\ DemonCloses =>
             /\ closeStatus' = 0 <=> DemonChildren(child') # {}
             /\ closeStatus' = 0 <=>
                   last'.eff = <<"spawn " \o Name(options, "demon")>>
             /\ closeStatus' # 0 => pc' = "exited"]_vars

\* C26 witness: the dev task has installed and spawned a demon child, that
\* child has closed with status 0 and a new one is alive in its place.
C26_Witness ==
    /\ Returned
    /\ last = Did("close", Name(options, "demon"),
                  <<"spawn " \o Name(options, "demon")>>)
    /\ lastCmd = Ran("npm install", 0)
    /\ closeStatus = 0
    /\ child = <<Name(options, "demon")>>
    /\ pc = "running"

=============================================================================
